---- MODULE Spec2Model ----
(***************************************************************************)
(* State-machine model of drivers/net/mana/mana.c (DPDK MANA PMD control   *)
(* plane).                                                                 *)
(*                                                                         *)
(* Spec: cross-process coordination.  One primary and two secondary EAL    *)
(* processes probe and remove the MANA PCI device.  Each step of a process *)
(* holds at most one access to memory another process can see (the shared  *)
(* memzone, its spinlock, the ethdev table), so the processes interleave   *)
(* at the granularity of those accesses.                                   *)
(*                                                                         *)
(* SpecDev: device configure / start / stop in the primary, with a foreign *)
(* worker thread that reads a burst pointer and calls it.  Stores of the   *)
(* control thread reach the worker in any order unless rte_wmb() orders    *)
(* them.                                                                   *)
(*                                                                         *)
(* SpecIntr: the asynchronous-event handler mana_intr_handler draining the *)
(* event queue of the IB device; SpecIntrFair adds that a dispatched       *)
(* handler keeps running.                                                  *)
(*                                                                         *)
(* SpecSec: one secondary process probing and removing several PCI         *)
(* devices, with its local attachment counter and IPC endpoint.            *)
(*                                                                         *)
(* SpecQueue: setup and release of the Tx and Rx queue records.            *)
(*                                                                         *)
(* SpecPort: mana_probe_port acquiring the resources of one port, the      *)
(* install of the event watcher, and mana_dev_close.                       *)
(*                                                                         *)
(* SpecCache: one memory-registration cache; mana.c only creates and frees *)
(* the caches, their lookup and replacement follow the specification.      *)
(***************************************************************************)
EXTENDS Integers, FiniteSets, Sequences, TLC

(* ------------------------------ bounds -------------------------------- *)
\* ports of the device walked by the loop of mana_pci_probe_mac
MaxPorts == 2
\* mana_pci_probe calls issued by all processes together; attempts of
\* mana_probe_port on one port
MaxProbes == 2
\* queues per direction the device can be configured with
MaxQueues == 2
\* asynchronous events the IB device posts during the life of the watcher
MaxEvents == 3
\* PCI devices the bus offers to one secondary process
MaxDevs == 2
\* largest nb_desc passed to a queue setup
MaxDepth == 2
\* memory regions registered on the port before it is closed
MaxMrs == 2
\* capacity of a memory-registration cache
CacheN == 2
\* memory ranges the mempools of the application offer
MaxRanges == 3
\* inserts and lookups issued on one cache
MaxUses == 4

Ports == 1..MaxPorts
Devs == 1..MaxDevs

(* ----------------------------- processes ------------------------------ *)
PRIMARY == "prim"
Secondaries == {"sec1", "sec2"}
Procs == {PRIMARY} \cup Secondaries

\* value of an unlocked rte_spinlock_t, and a value no process wrote
LockFree == "free"
LockJunk == "junk"

VARIABLES
  (* --- shared memzone "mana_shared_data" --- *)
  mz_state,              \* "none" | "reserved" | "freed" | "recycled"
  shm,                   \* bytes of struct mana_shared_data in the memzone
  (* --- per-process globals of mana.c --- *)
  mana_shared_data,      \* [Procs -> BOOLEAN]  pointer is non-NULL
  mana_local_data,       \* [Procs -> [init_done, secondary_cnt]]
  mana_shared_data_lock, \* [Procs -> BOOLEAN]  process-local spinlock held
  mp_registered,         \* [Procs -> BOOLEAN]  mana_mp_init_* done, not undone
  (* --- control state of the probe / remove call of each process --- *)
  pc, ret, port,
  probed,                \* [Procs -> BOOLEAN] PCI device bound to the driver
  attached,              \* [Procs -> SUBSET Ports] ports with an ethdev
  nprobes,               \* 0..MaxProbes, calls of mana_pci_probe so far
  (* --- history of the one-time set-up calls --- *)
  hist,
  (* --- device (struct rte_eth_dev, struct mana_priv), SpecDev --- *)
  dev,                   \* what the control thread has stored
  seen,                  \* what a foreign thread reads: burst pointers, queues
  ctl,                   \* the control thread: call in progress, locals
  worker,                \* the worker thread: pointer it read, ghost verdict
  (* --- asynchronous events, SpecIntr --- *)
  intr,
  (* --- one secondary process and several PCI devices, SpecSec --- *)
  sec,
  (* --- queue slots and their allocations, SpecQueue --- *)
  qsu,
  (* --- probe, event watcher and close of one port, SpecPort --- *)
  prt,
  (* --- one memory-registration cache, SpecCache --- *)
  mrc

memVars == <<mz_state, shm>>
procVars == <<mana_shared_data, mana_local_data, mana_shared_data_lock,
              mp_registered>>
ctlVars == <<pc, ret, port>>
busVars == <<probed, attached, nprobes>>
coordVars == <<memVars, procVars, ctlVars, busVars, hist>>
devVars == <<dev, seen, ctl, worker>>
intrVars == <<intr>>
auxVars == <<sec, qsu, prt, mrc>>
vars == <<coordVars, devVars, intrVars, auxVars>>

\* rte_eal_process_type(): fixed when the EAL starts the process.  The
\* variant makes the first process to call the primary.
rte_eal_process_type_by_call_order(p) ==
  IF hist.first_caller \in {"nobody", p} THEN "RTE_PROC_PRIMARY"
                                          ELSE "RTE_PROC_SECONDARY"
rte_eal_process_type(p) == IF p = PRIMARY THEN "RTE_PROC_PRIMARY"
                                          ELSE "RTE_PROC_SECONDARY"

\* memset(mana_shared_data, 0, ...) followed by rte_spinlock_init()
ShmZero == [lock |-> LockFree, init_done |-> 0,
            primary_cnt |-> 0, secondary_cnt |-> 0]

\* What the bytes of the memzone can hold when the driver has not written
\* them (fresh heap memory before the memset, memory given back to the heap
\* by rte_memzone_free()): cleared, or non-zero in every field.
ShmPoison == [lock |-> LockJunk, init_done |-> 1,
              primary_cnt |-> 1, secondary_cnt |-> 1]
ShmGarbage == {ShmZero, ShmPoison}

\* memset(&mana_local_data, 0, ...)
LocalZero == [init_done |-> 0, secondary_cnt |-> 0]

HistZero == [mp_init_primary |-> 0,     \* successful mana_mp_init_primary()
             mp_init_secondary |-> [p \in Procs |-> 0],
             global_setup_by |-> {},    \* who ran mana_mp_init_primary
             first_caller |-> "nobody"] \* first to enter mana_init_once

CoordInit ==
  /\ mz_state = "none"
  /\ shm = ShmZero
  /\ mana_shared_data = [p \in Procs |-> FALSE]
  /\ mana_local_data = [p \in Procs |-> LocalZero]
  /\ mana_shared_data_lock = [p \in Procs |-> FALSE]
  /\ mp_registered = [p \in Procs |-> FALSE]
  /\ pc = [p \in Procs |-> "idle"]
  /\ ret = [p \in Procs |-> 0]
  /\ port = [p \in Procs |-> 0]
  /\ probed = [p \in Procs |-> FALSE]
  /\ attached = [p \in Procs |-> {}]
  /\ nprobes = 0
  /\ hist = HistZero

(* ------------------------- small C idioms ----------------------------- *)
\* RTE_VERIFY(exp): rte_panic() unless exp holds (never compiled out)
RTE_VERIFY_disabled(exp) == TRUE
RTE_VERIFY(exp) == exp

\* rte_spinlock_trylock step of rte_spinlock_lock(): the lock word is free
SpinFree(word) == word = LockFree

\* statements of mana.c that dereference mana_shared_data
DerefPcs == {"io_lock", "io_switch", "pp_lock", "pp_inc",
             "rm_lock_shared", "rm_dec", "rm_free"}

\* the skip test of mana_init_shared_data(): if (mana_shared_data) goto exit
SharedDataKnown(p) == mana_shared_data[p]

(* ------------------- mana_pci_probe -> mana_init_once ----------------- *)
\* mana_pci_probe() returns r to the PCI bus, which binds the device to the
\* driver when r is 0; the locals of the call are dead
ProbeReturn(p, r) ==
  /\ probed' = [probed EXCEPT ![p] = (r = 0)]
  /\ ret' = [ret EXCEPT ![p] = 0]
  /\ port' = [port EXCEPT ![p] = 0]
  /\ pc' = [pc EXCEPT ![p] = "idle"]

\* the call goes on at label l
Goto(p, l) ==
  /\ pc' = [pc EXCEPT ![p] = l]
  /\ UNCHANGED <<ret, port, probed>>

\* mana_pci_probe() calls mana_init_once(), which calls
\* mana_init_shared_data(): process-local lock, skip test, then
\* rte_memzone_reserve() in a primary and rte_memzone_lookup() in a
\* secondary.  The primary goes on to its memset with the local lock held;
\* every other path unlocks and either returns the error to the bus or goes
\* on to the shared lock of mana_init_once().
mana_init_shared_data(p) ==
  /\ pc[p] = "idle" /\ ~probed[p] /\ nprobes < MaxProbes
  /\ ~mana_shared_data_lock[p]
  /\ nprobes' = nprobes + 1
  /\ hist' = [hist EXCEPT !.first_caller = IF @ = "nobody" THEN p ELSE @]
  /\ \/ /\ SharedDataKnown(p)
        /\ Goto(p, "io_lock")
        /\ UNCHANGED <<memVars, mana_shared_data, mana_local_data,
                       mana_shared_data_lock>>
     \/ /\ ~SharedDataKnown(p)
        /\ rte_eal_process_type(p) = "RTE_PROC_PRIMARY"
        /\ \/ /\ mz_state = "none"          \* rte_memzone_reserve() succeeds
              /\ mz_state' = "reserved"
              /\ shm' \in ShmGarbage
              /\ mana_shared_data' = [mana_shared_data EXCEPT ![p] = TRUE]
              /\ mana_shared_data_lock' =
                   [mana_shared_data_lock EXCEPT ![p] = TRUE]
              /\ Goto(p, "isd_memset")
           \/ /\ ProbeReturn(p, -1)            \* -rte_errno
              /\ UNCHANGED <<memVars, mana_shared_data,
                             mana_shared_data_lock>>
        /\ UNCHANGED mana_local_data
     \/ /\ ~SharedDataKnown(p)
        /\ rte_eal_process_type(p) = "RTE_PROC_SECONDARY"
        /\ IF mz_state = "reserved"         \* rte_memzone_lookup()
             THEN /\ mana_shared_data' = [mana_shared_data EXCEPT ![p] = TRUE]
                  /\ mana_local_data' = [mana_local_data EXCEPT ![p] = LocalZero]
                  /\ Goto(p, "io_lock")
             ELSE /\ ProbeReturn(p, -1)          \* -rte_errno
                  /\ UNCHANGED <<mana_shared_data, mana_local_data>>
        /\ UNCHANGED <<memVars, mana_shared_data_lock>>
  /\ UNCHANGED <<attached, mp_registered>>
  /\ UNCHANGED <<devVars, intrVars, auxVars>>

\* mana_init_shared_data(), primary: memset() of the segment and
\* rte_spinlock_init(), then the exit label drops the local lock
InitSharedMemset(p) ==
  /\ pc[p] = "isd_memset"
  /\ shm' = ShmZero
  /\ mana_shared_data_lock' = [mana_shared_data_lock EXCEPT ![p] = FALSE]
  /\ Goto(p, "io_lock")
  /\ UNCHANGED <<mz_state, mana_shared_data, mana_local_data, mp_registered,
                 attached, nprobes, hist>>
  /\ UNCHANGED <<devVars, intrVars, auxVars>>

\* mana_init_once(): rte_spinlock_lock(&mana_shared_data->lock)
InitOnceLock(p) ==
  /\ pc[p] = "io_lock" /\ SpinFree(shm.lock)
  /\ shm' = [shm EXCEPT !.lock = p]
  /\ Goto(p, "io_switch")
  /\ UNCHANGED <<mz_state, procVars, attached, nprobes, hist>>
  /\ UNCHANGED <<devVars, intrVars, auxVars>>

\* the init_done test of the RTE_PROC_PRIMARY case
PrimaryInitSkipped(s) == s.init_done # 0

\* the init_done test of the RTE_PROC_SECONDARY case
SecondaryInitSkipped(l) == l.init_done # 0

\* init_done = 1 after a successful mana_mp_init_primary() / _secondary()
MarkInitDone(r, ok) == IF ok THEN [r EXCEPT !.init_done = 1] ELSE r

\* mana_init_once(): the switch on rte_eal_process_type() under the shared
\* lock, then rte_spinlock_unlock().  ok is the outcome of
\* mana_mp_init_primary() / mana_mp_init_secondary().  On an error
\* mana_pci_probe() returns it, otherwise it enters mana_pci_probe_mac()
\* with port = 1.
InitOnceSwitch(p) ==
  /\ pc[p] = "io_switch"
  /\ \E ok \in BOOLEAN :
       LET skip == IF rte_eal_process_type(p) = "RTE_PROC_PRIMARY"
                     THEN PrimaryInitSkipped(shm)
                     ELSE SecondaryInitSkipped(mana_local_data[p])
           r == IF skip \/ ok THEN ret[p] ELSE -1
       IN
       /\ IF rte_eal_process_type(p) = "RTE_PROC_PRIMARY"
            THEN /\ shm' = [(IF skip THEN shm ELSE MarkInitDone(shm, ok))
                              EXCEPT !.lock = LockFree]
                 /\ hist' = IF ~skip /\ ok
                              THEN [hist EXCEPT !.mp_init_primary = @ + 1,
                                                !.global_setup_by = @ \cup {p}]
                              ELSE hist
                 /\ UNCHANGED mana_local_data
            ELSE /\ shm' = [shm EXCEPT !.lock = LockFree]
                 /\ mana_local_data' =
                      [mana_local_data EXCEPT ![p] =
                         IF skip THEN @ ELSE MarkInitDone(@, ok)]
                 /\ hist' = IF ~skip /\ ok
                              THEN [hist EXCEPT !.mp_init_secondary[p] = @ + 1]
                              ELSE hist
       /\ mp_registered' =
            [mp_registered EXCEPT ![p] = IF ~skip /\ ok THEN TRUE ELSE @]
       /\ IF r # 0
            THEN ProbeReturn(p, r)
            ELSE /\ pc' = [pc EXCEPT ![p] = "pm_loop"]
                 /\ port' = [port EXCEPT ![p] = 1]
                 /\ UNCHANGED <<ret, probed>>
  /\ UNCHANGED <<mz_state, mana_shared_data, mana_shared_data_lock, attached,
                 nprobes>>
  /\ UNCHANGED <<devVars, intrVars, auxVars>>

(* ---------------- mana_pci_probe_mac / mana_probe_port ---------------- *)
\* rte_eth_dev_allocate(name) in a primary needs a free name;
\* rte_eth_dev_attach_secondary(name) needs the primary's ethdev of that name
EthdevAvailable(p, k) ==
  IF rte_eal_process_type(p) = "RTE_PROC_PRIMARY"
    THEN k \notin attached[p]
    ELSE k \in attached[PRIMARY]

\* mana_pci_probe_mac(): end of one turn of the loop over the ports with
\* r in ret.  After the last port the function returns ret, and
\* mana_pci_probe() returns it to the bus.
LoopContinue(p, r) ==
  IF port[p] >= MaxPorts
    THEN ProbeReturn(p, r)
    ELSE /\ ret' = [ret EXCEPT ![p] = r]
         /\ port' = [port EXCEPT ![p] = @ + 1]
         /\ pc' = [pc EXCEPT ![p] = "pm_loop"]
         /\ UNCHANGED probed

\* mana_pci_probe_mac(): one turn of the loop.  get_port_mac() fails, the
\* MAC filter rejects the port, or the port goes to mana_probe_port(): there
\* either the ethdev is allocated (attached, in a secondary) and every later
\* allocation and device call succeeds, or one of them fails and the failed
\* label releases what the call holds.
ProbeMacPort(p) ==
  /\ pc[p] = "pm_loop"
  /\ \/ LoopContinue(p, -1) /\ UNCHANGED attached    \* get_port_mac() fails
     \/ LoopContinue(p, 0) /\ UNCHANGED attached     \* address not selected
     \/ LoopContinue(p, -1) /\ UNCHANGED attached    \* mana_probe_port() fails
     \/ /\ EthdevAvailable(p, port[p])
        /\ attached' = [attached EXCEPT ![p] = @ \cup {port[p]}]
        /\ Goto(p, "pp_lock")
  /\ UNCHANGED <<memVars, procVars, nprobes, hist>>
  /\ UNCHANGED <<devVars, intrVars, auxVars>>

\* mana_probe_port(): rte_spinlock_lock(&mana_shared_data->lock)
ProbePortLock(p) ==
  /\ pc[p] = "pp_lock" /\ SpinFree(shm.lock)
  /\ shm' = [shm EXCEPT !.lock = p]
  /\ Goto(p, "pp_inc")
  /\ UNCHANGED <<mz_state, procVars, attached, nprobes, hist>>
  /\ UNCHANGED <<devVars, intrVars, auxVars>>

\* mana_shared_data->primary_cnt++
PrimaryCntInc(s) == [s EXCEPT !.primary_cnt = @ + 1]

\* mana_shared_data->secondary_cnt++
SecondaryCntInc(s) == [s EXCEPT !.secondary_cnt = @ + 1]

\* mana_local_data.secondary_cnt++
LocalCntInc(l) == [l EXCEPT !.secondary_cnt = @ + 1]

\* mana_probe_port(): the increments made under the shared lock, then
\* rte_spinlock_unlock(), rte_eth_dev_probing_finish(), return 0; the loop
\* of mana_pci_probe_mac() moves to the next port
ProbePortInc(p) ==
  /\ pc[p] = "pp_inc"
  /\ IF rte_eal_process_type(p) = "RTE_PROC_PRIMARY"
       THEN /\ shm' = [PrimaryCntInc(shm) EXCEPT !.lock = LockFree]
            /\ UNCHANGED mana_local_data
       ELSE /\ shm' = [SecondaryCntInc(shm) EXCEPT !.lock = LockFree]
            /\ mana_local_data' =
                 [mana_local_data EXCEPT ![p] = LocalCntInc(@)]
  /\ LoopContinue(p, 0)
  /\ UNCHANGED <<mz_state, mana_shared_data, mana_shared_data_lock,
                 mp_registered, attached, nprobes, hist>>
  /\ UNCHANGED <<devVars, intrVars, auxVars>>

(* --------------------------- mana_pci_remove -------------------------- *)
\* mana_pci_remove(): the bus calls it for a device bound to the driver;
\* rte_spinlock_lock(&mana_shared_data_lock)
mana_pci_remove(p) ==
  /\ pc[p] = "idle" /\ probed[p]
  /\ ~mana_shared_data_lock[p]
  /\ mana_shared_data_lock' = [mana_shared_data_lock EXCEPT ![p] = TRUE]
  /\ Goto(p, "rm_lock_shared")
  /\ UNCHANGED <<memVars, mana_shared_data, mana_local_data, mp_registered,
                 attached, nprobes, hist>>
  /\ UNCHANGED <<devVars, intrVars, auxVars>>

\* mana_pci_remove(): rte_spinlock_lock(&mana_shared_data->lock)
RemoveLockShared(p) ==
  /\ pc[p] = "rm_lock_shared" /\ SpinFree(shm.lock)
  /\ shm' = [shm EXCEPT !.lock = p]
  /\ Goto(p, "rm_dec")
  /\ UNCHANGED <<mz_state, procVars, attached, nprobes, hist>>
  /\ UNCHANGED <<devVars, intrVars, auxVars>>

\* mana_shared_data->primary_cnt--
PrimaryCntDec(s) == [s EXCEPT !.primary_cnt = @ - 1]

\* mana_shared_data->secondary_cnt--
SecondaryCntDec(s) == [s EXCEPT !.secondary_cnt = @ - 1]

\* mana_local_data.secondary_cnt--
LocalCntDec(l) == [l EXCEPT !.secondary_cnt = @ - 1]

\* mana_mp_uninit_primary() / mana_mp_uninit_secondary() run when the
\* counter just decremented is 0
UninitAtZero(reg, cnt) == IF cnt = 0 THEN FALSE ELSE reg

\* mana_pci_remove(): RTE_VERIFY and decrement of the shared counter under
\* the shared lock, the primary runs mana_mp_uninit_primary() at zero, then
\* rte_spinlock_unlock().  A failed RTE_VERIFY is rte_panic(): the process
\* dies holding both locks.
RemoveDec(p) ==
  /\ pc[p] = "rm_dec"
  /\ IF rte_eal_process_type(p) = "RTE_PROC_PRIMARY"
       THEN IF RTE_VERIFY(shm.primary_cnt > 0)
              THEN /\ shm' = [PrimaryCntDec(shm) EXCEPT !.lock = LockFree]
                   /\ mp_registered' = [mp_registered EXCEPT ![p] =
                                          UninitAtZero(@, shm'.primary_cnt)]
                   /\ Goto(p, "rm_free")
              ELSE /\ Goto(p, "panic")
                   /\ UNCHANGED <<shm, mp_registered>>
       ELSE IF RTE_VERIFY(shm.secondary_cnt > 0)
              THEN /\ shm' = [SecondaryCntDec(shm) EXCEPT !.lock = LockFree]
                   /\ Goto(p, "rm_local")
                   /\ UNCHANGED mp_registered
              ELSE /\ Goto(p, "panic")
                   /\ UNCHANGED <<shm, mp_registered>>
  /\ UNCHANGED <<mz_state, mana_shared_data, mana_local_data,
                 mana_shared_data_lock, attached, nprobes, hist>>
  /\ UNCHANGED <<devVars, intrVars, auxVars>>

\* mana_pci_remove(): rte_spinlock_unlock(&mana_shared_data_lock), then
\* rte_eth_dev_pci_generic_remove(): the bus unbinds the device and its
\* ports are gone
RemoveReturn(p) ==
  /\ mana_shared_data_lock' = [mana_shared_data_lock EXCEPT ![p] = FALSE]
  /\ probed' = [probed EXCEPT ![p] = FALSE]
  /\ attached' = [attached EXCEPT ![p] = {}]
  /\ pc' = [pc EXCEPT ![p] = "idle"]
  /\ UNCHANGED <<ret, port>>

\* the test that guards rte_memzone_free(mana_shared_mz)
LastPrimary(s) == s.primary_cnt = 0

\* mana_pci_remove(), primary: primary_cnt is read again after the unlock
\* and the memzone is freed when it is 0.  mana_shared_data keeps pointing
\* into the freed memzone.
RemoveFree(p) ==
  /\ pc[p] = "rm_free"
  /\ mz_state' = IF LastPrimary(shm) /\ mz_state = "reserved"
                   THEN "freed" ELSE mz_state
  /\ RemoveReturn(p)
  /\ UNCHANGED <<shm, mana_shared_data, mana_local_data, mp_registered,
                 nprobes, hist>>
  /\ UNCHANGED <<devVars, intrVars, auxVars>>

\* mana_pci_remove(), secondary: RTE_VERIFY and decrement of the local
\* counter after the shared lock was released; mana_mp_uninit_secondary()
\* at zero
RemoveLocal(p) ==
  /\ pc[p] = "rm_local"
  /\ IF RTE_VERIFY(mana_local_data[p].secondary_cnt > 0)
       THEN /\ mana_local_data' = [mana_local_data EXCEPT ![p] = LocalCntDec(@)]
            /\ mp_registered' =
                 [mp_registered EXCEPT ![p] =
                    UninitAtZero(@, mana_local_data'[p].secondary_cnt)]
            /\ RemoveReturn(p)
       ELSE /\ Goto(p, "panic")
            /\ UNCHANGED <<mana_local_data, mp_registered,
                           mana_shared_data_lock, attached>>
  /\ UNCHANGED <<memVars, mana_shared_data, nprobes, hist>>
  /\ UNCHANGED <<devVars, intrVars, auxVars>>

(* ----------------- the memzone after rte_memzone_free ----------------- *)
\* The freed memzone is heap memory again: the heap clears or poisons it, or
\* a later allocation overwrites it.  mana_shared_data of every process
\* still points at it, so each later access reads what the heap left there.
HeapReuse ==
  /\ mz_state = "freed"
  /\ mz_state' = "recycled"
  /\ shm' \in ShmGarbage
  /\ UNCHANGED <<procVars, ctlVars, busVars, hist>>
  /\ UNCHANGED <<devVars, intrVars, auxVars>>

\* ... or the heap has given the pages back and the access faults
Segv(p) ==
  /\ mz_state \in {"freed", "recycled"} /\ pc[p] \in DerefPcs
  /\ Goto(p, "segv")
  /\ UNCHANGED <<memVars, procVars, attached, nprobes, hist>>
  /\ UNCHANGED <<devVars, intrVars, auxVars>>

CoordNext ==
  \/ \E p \in Procs :
       \/ mana_init_shared_data(p) \/ InitSharedMemset(p) \/ InitOnceLock(p)
       \/ InitOnceSwitch(p) \/ ProbeMacPort(p) \/ ProbePortLock(p)
       \/ ProbePortInc(p) \/ mana_pci_remove(p) \/ RemoveLockShared(p)
       \/ RemoveDec(p) \/ RemoveFree(p) \/ RemoveLocal(p) \/ Segv(p)
  \/ HeapReuse

(* ===================== device configure / start / stop ================= *)
Queues == 1..MaxQueues
AllInactive == [q \in Queues |-> FALSE]

\* the device after mana_probe_port(): no queues, both burst entry points
\* are the removed stubs
DevInit ==
  /\ dev = [num_queues |-> 0, rss_hash |-> FALSE, buf_allocators |-> FALSE,
            txq |-> AllInactive, rxq |-> AllInactive,
            tx_pkt_burst |-> "removed", rx_pkt_burst |-> "removed",
            mr_btree |-> FALSE, dev_started |-> FALSE, sec_rxtx |-> FALSE]
  /\ seen = [txq |-> AllInactive, rxq |-> AllInactive,
             tx_pkt_burst |-> "removed", rx_pkt_burst |-> "removed"]
  /\ ctl = [pc |-> "idle", i |-> 0, ret |-> 0, op |-> "none",
            activated |-> FALSE]
  /\ worker = [pc |-> "idle", fn |-> "removed", dir |-> "tx", q |-> 1,
               nb |-> 0, touched |-> FALSE, hit_inactive |-> FALSE]

\* rte_is_power_of_2(n)
rte_is_power_of_2(n) == \E k \in 0..n : 2^k = n

\* the part of the device a foreign thread reads
SharedView(d) == [txq |-> d.txq, rxq |-> d.rxq,
                  tx_pkt_burst |-> d.tx_pkt_burst,
                  rx_pkt_burst |-> d.rx_pkt_burst]

\* rte_wmb(): every store made before it is visible before any store made
\* after it; v is the view of the other threads, d the device
rte_wmb_nop(v, d) == v
rte_wmb(v, d) == SharedView(d)

\* the control thread returns r from operation o
CtlReturn(o, r) == [pc |-> "idle", i |-> 0, ret |-> r, op |-> o,
                    activated |-> ctl.activated]

\* mana_dev_configure(): nb_rx / nb_tx are dev->data->nb_rx_queues and
\* nb_tx_queues, mq_rss is RTE_ETH_MQ_RX_RSS_FLAG of rxmode.mq_mode
mana_dev_configure(nb_rx, nb_tx, mq_rss) ==
  /\ ctl.pc = "idle" /\ ~dev.dev_started
  /\ LET d1 == [dev EXCEPT !.rss_hash = @ \/ mq_rss] IN
     IF nb_rx # nb_tx \/ ~rte_is_power_of_2(nb_rx)
       THEN /\ dev' = d1
            /\ ctl' = CtlReturn("configure", -22)     \* -EINVAL
       ELSE /\ dev' = [d1 EXCEPT !.num_queues = nb_rx,
                                 !.buf_allocators = TRUE]
            /\ ctl' = CtlReturn("configure", 0)
  /\ UNCHANGED <<seen, worker, coordVars, intrVars, auxVars>>

\* mana_dev_start(): rte_spinlock_init() and mana_mr_btree_init()
DevStartBegin ==
  /\ ctl.pc = "idle" /\ ~dev.dev_started /\ dev.num_queues > 0
  /\ \/ /\ dev' = [dev EXCEPT !.mr_btree = TRUE]
        /\ ctl' = [pc |-> "start_tx", i |-> 1, ret |-> 0, op |-> "start",
                   activated |-> FALSE]
     \/ /\ ctl' = [CtlReturn("start", -12) EXCEPT !.activated = FALSE]
        /\ UNCHANGED dev
  /\ UNCHANGED <<seen, worker, coordVars, intrVars, auxVars>>

\* mana_stop_tx_queues() / mana_stop_rx_queues(): every queue of the
\* direction is deactivated
mana_stop_queues(qs) == AllInactive

\* mana_start_tx_queues(): activates queue after queue; when an activation
\* fails it stops the queues it has started and returns the error
StartTxQueue ==
  /\ ctl.pc = "start_tx"
  /\ IF ctl.i > dev.num_queues
       THEN /\ ctl' = [ctl EXCEPT !.pc = "start_rx", !.i = 1]
            /\ UNCHANGED dev
       ELSE \/ /\ dev' = [dev EXCEPT !.txq[ctl.i] = TRUE]
               /\ ctl' = [ctl EXCEPT !.i = @ + 1, !.activated = TRUE]
            \/ /\ dev' = [dev EXCEPT !.txq = mana_stop_queues(@)]
               /\ ctl' = [ctl EXCEPT !.pc = "failed_tx", !.ret = -1]
  /\ UNCHANGED <<seen, worker, coordVars, intrVars, auxVars>>

\* mana_start_rx_queues(): the same for the receive queues
StartRxQueue ==
  /\ ctl.pc = "start_rx"
  /\ IF ctl.i > dev.num_queues
       THEN /\ ctl' = [ctl EXCEPT !.pc = "start_wmb"]
            /\ UNCHANGED dev
       ELSE \/ /\ dev' = [dev EXCEPT !.rxq[ctl.i] = TRUE]
               /\ ctl' = [ctl EXCEPT !.i = @ + 1, !.activated = TRUE]
            \/ /\ dev' = [dev EXCEPT !.rxq = mana_stop_queues(@)]
               /\ ctl' = [ctl EXCEPT !.pc = "failed_rx", !.ret = -1]
  /\ UNCHANGED <<seen, worker, coordVars, intrVars, auxVars>>

\* mana_dev_start(): rte_wmb() after the queues have started
StartFence ==
  /\ ctl.pc = "start_wmb"
  /\ seen' = rte_wmb(seen, dev)
  /\ ctl' = [ctl EXCEPT !.pc = "start_publish"]
  /\ UNCHANGED <<dev, worker, coordVars, intrVars, auxVars>>

\* dev->tx_pkt_burst = mana_tx_burst; dev->rx_pkt_burst = mana_rx_burst
PublishLive(d) == [d EXCEPT !.tx_pkt_burst = "live", !.rx_pkt_burst = "live"]

\* mana_dev_start(): the live burst functions are stored
StartPublish ==
  /\ ctl.pc = "start_publish"
  /\ dev' = PublishLive(dev)
  /\ ctl' = [ctl EXCEPT !.pc = "start_mp"]
  /\ UNCHANGED <<seen, worker, coordVars, intrVars, auxVars>>

\* mana_dev_start(): mana_mp_req_on_rxtx(dev, MANA_MP_REQ_START_RXTX),
\* return 0; rte_eth_dev_start() marks the device started
StartMpReq ==
  /\ ctl.pc = "start_mp"
  /\ dev' = [dev EXCEPT !.sec_rxtx = TRUE, !.dev_started = TRUE]
  /\ ctl' = CtlReturn("start", 0)
  /\ UNCHANGED <<seen, worker, coordVars, intrVars, auxVars>>

\* mana_dev_start(), label failed_rx: mana_stop_tx_queues(dev)
FailedRxLabel_fallthrough(d) == d
FailedRxLabel(d) == [d EXCEPT !.txq = mana_stop_queues(@)]

\* mana_dev_start(), label failed_rx
StartFailedRx ==
  /\ ctl.pc = "failed_rx"
  /\ dev' = FailedRxLabel(dev)
  /\ ctl' = [ctl EXCEPT !.pc = "failed_tx"]
  /\ UNCHANGED <<seen, worker, coordVars, intrVars, auxVars>>

\* mana_dev_start(), label failed_tx: mana_mr_btree_free(), return ret
StartFailedTx ==
  /\ ctl.pc = "failed_tx"
  /\ dev' = [dev EXCEPT !.mr_btree = FALSE]
  /\ ctl' = CtlReturn("start", ctl.ret)
  /\ UNCHANGED <<seen, worker, coordVars, intrVars, auxVars>>

\* dev->tx_pkt_burst = mana_tx_burst_removed; dev->rx_pkt_burst = ..._removed
PublishRemoved_tx_only(d) == [d EXCEPT !.tx_pkt_burst = "removed"]
PublishRemoved(d) == [d EXCEPT !.tx_pkt_burst = "removed",
                               !.rx_pkt_burst = "removed"]

\* mana_dev_stop(): the removed stubs are stored first
StopPublish ==
  /\ ctl.pc = "idle" /\ dev.dev_started
  /\ dev' = PublishRemoved(dev)
  /\ ctl' = [ctl EXCEPT !.pc = "stop_mp", !.op = "stop", !.ret = 0]
  /\ UNCHANGED <<seen, worker, coordVars, intrVars, auxVars>>

\* mana_mp_req_on_rxtx(dev, MANA_MP_REQ_STOP_RXTX): the secondary
\* processes have switched their data path off when the request returns
StopRxtxRequest_skipped(d) == d
StopRxtxRequest(d) == [d EXCEPT !.sec_rxtx = FALSE]

\* mana_dev_stop(): mana_mp_req_on_rxtx(dev, MANA_MP_REQ_STOP_RXTX)
StopMpReq ==
  /\ ctl.pc = "stop_mp"
  /\ dev' = StopRxtxRequest(dev)
  /\ ctl' = [ctl EXCEPT !.pc = "stop_wmb"]
  /\ UNCHANGED <<seen, worker, coordVars, intrVars, auxVars>>

\* mana_dev_stop(): rte_wmb()
StopFence ==
  /\ ctl.pc = "stop_wmb"
  /\ seen' = rte_wmb(seen, dev)
  /\ ctl' = [ctl EXCEPT !.pc = "stop_tx"]
  /\ UNCHANGED <<dev, worker, coordVars, intrVars, auxVars>>

\* mana_dev_stop(): ret = mana_stop_tx_queues(dev); if (ret) return ret
StopTxQueues ==
  /\ ctl.pc = "stop_tx"
  /\ \/ /\ dev' = [dev EXCEPT !.txq = mana_stop_queues(@)]
        /\ ctl' = [ctl EXCEPT !.pc = "stop_rx"]
     \/ /\ ctl' = CtlReturn("stop", -1)
        /\ UNCHANGED dev
  /\ UNCHANGED <<seen, worker, coordVars, intrVars, auxVars>>

\* mana_dev_stop(): ret = mana_stop_rx_queues(dev); return; on success
\* rte_eth_dev_stop() clears dev_started
StopRxQueues ==
  /\ ctl.pc = "stop_rx"
  /\ \/ /\ dev' = [dev EXCEPT !.rxq = mana_stop_queues(@),
                              !.dev_started = FALSE]
        /\ ctl' = CtlReturn("stop", 0)
     \/ /\ ctl' = CtlReturn("stop", -1)
        /\ UNCHANGED dev
  /\ UNCHANGED <<seen, worker, coordVars, intrVars, auxVars>>

\* a store of the control thread becomes visible to the other threads;
\* without a fence the stores may become visible in any order
Propagate ==
  /\ \/ \E f \in {"tx_pkt_burst", "rx_pkt_burst"} :
          /\ seen[f] # dev[f]
          /\ seen' = [seen EXCEPT ![f] = dev[f]]
     \/ \E f \in {"txq", "rxq"}, q \in Queues :
          /\ seen[f][q] # dev[f][q]
          /\ seen' = [seen EXCEPT ![f][q] = dev[f][q]]
  /\ UNCHANGED <<dev, ctl, worker, coordVars, intrVars, auxVars>>

\* rte_eth_tx_burst() / rte_eth_rx_burst() in a worker thread: the burst
\* function pointer of the device is read
WorkerLoad ==
  /\ worker.pc = "idle" /\ dev.num_queues > 0
  /\ \E d \in {"tx", "rx"}, q \in 1..dev.num_queues :
       worker' = [worker EXCEPT !.pc = "loaded", !.dir = d, !.q = q,
                    !.fn = IF d = "tx" THEN seen.tx_pkt_burst
                                       ELSE seen.rx_pkt_burst]
  /\ UNCHANGED <<dev, seen, ctl, coordVars, intrVars, auxVars>>

\* the hardware state of the queue a worker's call runs against
QueueActive(d, q) == IF d = "tx" THEN dev.txq[q] ELSE dev.rxq[q]

\* mana_rx_burst_removed() / mana_tx_burst_removed(): rte_mb(); return 0;
\* the arguments are unused
mana_burst_removed(pkts_n) == [nb |-> 0, touched |-> FALSE]

\* the function read is called with pkts_n packets: the removed stubs touch
\* no queue, the live functions work on the queue whatever its state and
\* return how many packets they processed
WorkerCall ==
  /\ worker.pc = "loaded"
  /\ \E pkts_n \in 0..1, done \in 0..1 :
       LET r == IF worker.fn = "removed" THEN mana_burst_removed(pkts_n)
                ELSE [nb |-> IF done <= pkts_n THEN done ELSE pkts_n,
                      touched |-> TRUE]
       IN worker' = [worker EXCEPT !.pc = "idle",
                       !.nb = r.nb, !.touched = r.touched,
                       !.hit_inactive = @ \/ (worker.fn = "live"
                                   /\ ~QueueActive(worker.dir, worker.q))]
  /\ UNCHANGED <<dev, seen, ctl, coordVars, intrVars, auxVars>>

DevNext ==
  \/ \E nb_rx \in 0..MaxQueues, nb_tx \in 0..MaxQueues, mq_rss \in BOOLEAN :
       mana_dev_configure(nb_rx, nb_tx, mq_rss)
  \/ DevStartBegin
  \/ StartTxQueue
  \/ StartRxQueue
  \/ StartFence
  \/ StartPublish
  \/ StartMpReq
  \/ StartFailedRx
  \/ StartFailedTx
  \/ StopPublish
  \/ StopMpReq
  \/ StopFence
  \/ StopTxQueues
  \/ StopRxQueues
  \/ Propagate
  \/ WorkerLoad
  \/ WorkerCall

(* ===================== asynchronous device events ====================== *)
EventTypes == {"IBV_EVENT_DEVICE_FATAL", "IBV_EVENT_PORT_ERR"}

\* the watcher after mana_intr_install(): nothing queued on async_fd;
\* rmv is dev->data->dev_conf.intr_conf.rmv, chosen by the application
IntrInit ==
  \E rmv \in BOOLEAN :
    intr = [async_events |-> <<>>, rmv |-> rmv, pc |-> "idle",
            event |-> "none", rmv_callbacks |-> 0, acked |-> 0,
            posted |-> 0, fatal_seen |-> 0]

\* the IB device queues an asynchronous event on async_fd
PostEvent(e) ==
  /\ intr.posted < MaxEvents
  /\ intr' = [intr EXCEPT !.async_events = Append(@, e), !.posted = @ + 1]
  /\ UNCHANGED <<coordVars, devVars, auxVars>>

\* the interrupt thread finds async_fd readable and calls mana_intr_handler
IntrDispatch ==
  /\ intr.pc = "idle" /\ intr.async_events # <<>>
  /\ intr' = [intr EXCEPT !.pc = "get"]
  /\ UNCHANGED <<coordVars, devVars, auxVars>>

\* mana_intr_handler(): if (ibv_get_async_event(ctx, &event)) break;
HandlerGet ==
  /\ intr.pc = "get"
  /\ IF intr.async_events = <<>>
       THEN intr' = [intr EXCEPT !.pc = "idle", !.event = "none"]
       ELSE intr' = [intr EXCEPT !.pc = "event",
                                 !.event = Head(intr.async_events),
                                 !.async_events = Tail(@)]
  /\ UNCHANGED <<coordVars, devVars, auxVars>>

\* the condition under which the handler reports the removal
ReportsRemoval(w) == w.event = "IBV_EVENT_DEVICE_FATAL" /\ w.rmv

\* ibv_ack_async_event(&event), made for every event fetched
AckEvent_benign_only(w) ==
  IF w.event = "IBV_EVENT_DEVICE_FATAL" THEN w.acked ELSE w.acked + 1
AckEvent(w) == w.acked + 1

\* mana_intr_handler(): the event is examined, the removal callback runs
\* (rte_eth_dev_callback_process), the event is acknowledged
HandlerEvent ==
  /\ intr.pc = "event"
  /\ intr' = [intr EXCEPT
       !.pc = "get",
       !.rmv_callbacks = IF ReportsRemoval(intr) THEN @ + 1 ELSE @,
       !.fatal_seen = IF intr.event = "IBV_EVENT_DEVICE_FATAL"
                        THEN @ + 1 ELSE @,
       !.acked = AckEvent(intr)]
  /\ UNCHANGED <<coordVars, devVars, auxVars>>

IntrNext ==
  \/ \E e \in EventTypes : PostEvent(e)
  \/ IntrDispatch
  \/ HandlerGet
  \/ HandlerEvent

(* ============ one secondary process, several PCI devices ============== *)
\* The secondary process after EAL start: the primary has reserved the
\* memzone and created the ethdevs of every port.
SecInit ==
  sec = [local |-> LocalZero,                  \* mana_local_data
         shared |-> [secondary_cnt |-> 0],     \* mana_shared_data->...
         known |-> FALSE,                      \* mana_shared_data != NULL
         mp_registered |-> FALSE,
         bound |-> {},                         \* PCI devices bound
         attached |-> {},                      \* <<device, port>> ethdevs
         others |-> 0,                         \* ports of other secondaries
         pc |-> "idle", d |-> 0, port |-> 0, nprobes |-> 0]

\* mana_pci_probe(d) up to the call of mana_pci_probe_mac():
\* mana_init_shared_data() attaches the memzone and clears mana_local_data
\* the first time only, mana_init_once() runs mana_mp_init_secondary()
\* unless init_done is set; an error is returned to the bus
SecProbeBegin(d) ==
  /\ sec.pc = "idle" /\ d \notin sec.bound /\ sec.nprobes < MaxProbes
  /\ \E ok \in BOOLEAN :
       LET l0 == IF sec.known THEN sec.local ELSE LocalZero
           skip == SecondaryInitSkipped(l0)
           l1 == IF skip THEN l0 ELSE MarkInitDone(l0, ok)
       IN sec' = [sec EXCEPT
            !.nprobes = @ + 1,
            !.known = TRUE,
            !.local = l1,
            !.mp_registered = IF ~skip /\ ok THEN TRUE ELSE @,
            !.pc = IF skip \/ ok THEN "pm_loop" ELSE "idle",
            !.d = IF skip \/ ok THEN d ELSE 0,
            !.port = IF skip \/ ok THEN 1 ELSE 0]
  /\ UNCHANGED <<coordVars, devVars, intrVars, qsu, prt, mrc>>

\* end of one turn of the loop of mana_pci_probe_mac() with r in ret and
\* the record s; after the last port mana_pci_probe() returns r and the bus
\* binds the device when r is 0
SecLoopContinue(s, r) ==
  IF s.port >= MaxPorts
    THEN [s EXCEPT !.pc = "idle", !.d = 0, !.port = 0,
                   !.bound = IF r = 0 THEN @ \cup {s.d} ELSE @]
    ELSE [s EXCEPT !.port = @ + 1]

\* mana_pci_probe_mac(): one turn of the loop in the secondary;
\* mana_probe_port() attaches the ethdev and counts it in both counters
SecProbePort ==
  /\ sec.pc = "pm_loop"
  /\ \/ sec' = SecLoopContinue(sec, -1)           \* get_port_mac() fails
     \/ sec' = SecLoopContinue(sec, 0)            \* address not selected
     \/ sec' = SecLoopContinue(
                 [sec EXCEPT !.attached = @ \cup {<<sec.d, sec.port>>},
                             !.shared = SecondaryCntInc(@),
                             !.local = LocalCntInc(@)], 0)
  /\ UNCHANGED <<coordVars, devVars, intrVars, qsu, prt, mrc>>

\* rte_eth_dev_pci_generic_remove(pci_dev, mana_dev_uninit): the ports of
\* the device removed are released
PortsLeft(att, d) == {a \in att : a[1] # d}

\* mana_pci_remove(d) in the secondary: both RTE_VERIFY, both decrements,
\* mana_mp_uninit_secondary() when the local counter is 0
SecRemove(d) ==
  /\ sec.pc = "idle" /\ d \in sec.bound
  /\ IF ~RTE_VERIFY(sec.shared.secondary_cnt > 0)
       THEN sec' = [sec EXCEPT !.pc = "panic"]
       ELSE IF ~RTE_VERIFY(sec.local.secondary_cnt > 0)
         THEN sec' = [sec EXCEPT !.pc = "panic",
                                 !.shared = SecondaryCntDec(@)]
         ELSE sec' = [sec EXCEPT
                !.shared = SecondaryCntDec(@),
                !.local = LocalCntDec(@),
                !.mp_registered =
                   UninitAtZero(@, LocalCntDec(sec.local).secondary_cnt),
                !.bound = @ \ {d},
                !.attached = PortsLeft(@, d)]
  /\ UNCHANGED <<coordVars, devVars, intrVars, qsu, prt, mrc>>

\* another secondary process attaches a port: mana_probe_port() there
\* counts it in the shared secondary_cnt
SecOtherProbePort ==
  /\ sec.others = 0
  /\ sec' = [sec EXCEPT !.others = 1, !.shared = SecondaryCntInc(@)]
  /\ UNCHANGED <<coordVars, devVars, intrVars, qsu, prt, mrc>>

\* the other secondary process removes its device: mana_pci_remove() there
SecOtherRemove ==
  /\ sec.others = 1 /\ RTE_VERIFY(sec.shared.secondary_cnt > 0)
  /\ sec' = [sec EXCEPT !.others = 0, !.shared = SecondaryCntDec(@)]
  /\ UNCHANGED <<coordVars, devVars, intrVars, qsu, prt, mrc>>

SecNext ==
  \/ SecOtherProbePort
  \/ SecOtherRemove
  \/ \E d \in Devs : SecProbeBegin(d)
  \/ SecProbePort
  \/ \E d \in Devs : SecRemove(d)

(* ===================== queue setup / release =========================== *)
Dirs == {"tx", "rx"}
QueueIds == Dirs \X Queues
\* a slot is a pointer: NULL, or the one queue it points to
NoQueue == <<>>

\* live allocations: queue records (struct mana_txq / mana_rxq), descriptor
\* rings, per-queue MR btrees
HeapEmpty == [qrec |-> 0, ring |-> 0, btree |-> 0]

\* the port after probe: dev->data->tx_queues[] and rx_queues[] are NULL
QueueInit ==
  qsu = [slots |-> [id \in QueueIds |-> NoQueue],
         heap |-> HeapEmpty,
         last |-> [op |-> "none", dir |-> "tx", q |-> 1, nb_desc |-> 0,
                   ret |-> 0, after_setup |-> FALSE,
                   slots0 |-> [id \in QueueIds |-> NoQueue],
                   heap0 |-> HeapEmpty]]

\* rte_malloc_socket(size, ...) / rte_zmalloc_socket(): NULL when the heap
\* is exhausted (oom) and when size is 0
MallocOk(size, oom) == size > 0 /\ ~oom

\* label fail of the setup functions: rte_free(q->desc_ring); rte_free(q);
\* rte_free(NULL) does nothing
SetupFail_keepRecord(h, ring) ==
  [h EXCEPT !.ring = IF ring THEN @ - 1 ELSE @]
SetupFail(h, ring) ==
  [h EXCEPT !.ring = IF ring THEN @ - 1 ELSE @, !.qrec = @ - 1]

\* the queue stored in the slot by a successful setup
NewQueue(nb_desc) ==
  [desc_ring_head |-> 0, desc_ring_tail |-> 0, num_desc |-> nb_desc,
   mr_entries |-> 0]

\* the record of the call just made
CallRecord(o, dir, q, nb_desc, r) ==
  [op |-> o, dir |-> dir, q |-> q, nb_desc |-> nb_desc, ret |-> r,
   after_setup |-> (o = "release" /\ qsu.last.op = "setup"
                      /\ qsu.last.ret = 0 /\ qsu.last.dir = dir
                      /\ qsu.last.q = q),
   slots0 |-> IF o = "release" THEN qsu.last.slots0 ELSE qsu.slots,
   heap0 |-> IF o = "release" THEN qsu.last.heap0 ELSE qsu.heap]

\* mana_dev_tx_queue_setup() / mana_dev_rx_queue_setup() for an empty slot
\* (rte_eth_tx_queue_setup() releases a queue the slot holds first); oom
\* names the allocation that fails: the queue record, the descriptor ring,
\* the MR btree of mana_mr_btree_init(), or none
QueueSetup(dir, q, nb_desc, oom) ==
  /\ qsu.slots[<<dir, q>>] = NoQueue
  /\ LET h1 == [qsu.heap EXCEPT !.qrec = @ + 1]
         ringOk == MallocOk(nb_desc, oom = "ring")
         h2 == IF ringOk THEN [h1 EXCEPT !.ring = @ + 1] ELSE h1
         h3 == [h2 EXCEPT !.btree = @ + 1]
     IN
     IF oom = "qrec"
       THEN qsu' = [qsu EXCEPT
                      !.last = CallRecord("setup", dir, q, nb_desc, -12)]
       ELSE IF ~ringOk \/ oom = "btree"
         THEN qsu' = [qsu EXCEPT
                        !.heap = SetupFail(h2, ringOk),
                        !.last = CallRecord("setup", dir, q, nb_desc, -12)]
         ELSE qsu' = [qsu EXCEPT
                        !.heap = h3,
                        !.slots[<<dir, q>>] = <<NewQueue(nb_desc)>>,
                        !.last = CallRecord("setup", dir, q, nb_desc, 0)]
  /\ UNCHANGED <<coordVars, devVars, intrVars, sec, prt, mrc>>

\* mana_dev_tx_queue_release() / mana_dev_rx_queue_release():
\* mana_mr_btree_free(), rte_free(desc_ring), rte_free(queue)
ReleaseFrees_keepRing(h) == [h EXCEPT !.btree = @ - 1, !.qrec = @ - 1]
ReleaseFrees(h) ==
  [h EXCEPT !.btree = @ - 1, !.ring = @ - 1, !.qrec = @ - 1]

\* the release of a queue that was set up; the ethdev layer then clears
\* the slot
QueueRelease(dir, q) ==
  /\ qsu.slots[<<dir, q>>] # NoQueue
  /\ qsu' = [qsu EXCEPT
               !.heap = ReleaseFrees(@),
               !.slots[<<dir, q>>] = NoQueue,
               !.last = CallRecord("release", dir, q, 0, 0)]
  /\ UNCHANGED <<coordVars, devVars, intrVars, sec, prt, mrc>>

QueueNext ==
  \/ \E dir \in Dirs, q \in Queues, nb_desc \in 0..MaxDepth,
        oom \in {"none", "qrec", "ring", "btree"} :
       QueueSetup(dir, q, nb_desc, oom)
  \/ \E dir \in Dirs, q \in Queues : QueueRelease(dir, q)

(* ===================== port probe, event watcher, close ================ *)
ProcTypes == {"RTE_PROC_PRIMARY", "RTE_PROC_SECONDARY"}

\* the calls of mana_probe_port() that can fail, in program order, up to
\* the call of mana_intr_install() in a primary process
PrimarySteps ==
  <<"ibv_open_device", "rte_eth_dev_allocate", "mac_addrs", "ibv_alloc_pd",
    "ibv_alloc_parent_domain">>
SecondarySteps ==
  <<"rte_eth_dev_attach_secondary", "mana_proc_priv_init",
    "mana_mp_req_verbs_cmd_fd", "mana_map_doorbell_secondary">>
StepsOf(role) ==
  IF role = "RTE_PROC_SECONDARY" THEN SecondarySteps ELSE PrimarySteps
StepNames(role) == {StepsOf(role)[i] : i \in DOMAIN StepsOf(role)}

\* position of a step in the order of the calls; past the end for "none"
StepIdx(role, step) ==
  IF step \in StepNames(role)
    THEN CHOOSE i \in DOMAIN StepsOf(role) : StepsOf(role)[i] = step
    ELSE Len(StepsOf(role)) + 1

\* the value mana_probe_port() puts in ret when the step fails
StepErrno(step) ==
  IF step \in {"ibv_open_device", "mana_mp_req_verbs_cmd_fd"}
    THEN -19    \* -ENODEV
    ELSE -12    \* -ENOMEM

\* No port: nothing allocated, counters at zero.
PortInit ==
  prt = [pc |-> "idle",            \* idle, install, failed
         state |-> "unprobed",     \* unprobed, probed, closed
         role |-> "none", step |-> "none", ret |-> 0, nprobes |-> 0,
         priv |-> 0,               \* live struct mana_priv
         eth_dev |-> FALSE,        \* ethdev port held by this process
         mac_addrs |-> FALSE,
         ib_pd |-> FALSE, ib_parent_pd |-> FALSE,
         ib_ctx |-> "none",        \* none, open, closed
         process_private |-> 0,    \* live struct mana_process_priv
         fd |-> 0,                 \* open descriptors received from primary
         db_page |-> 0,            \* doorbell mappings
         intr_handle |-> "NULL",   \* priv->intr_handle: NULL, valid, freed
         handles |-> 0,            \* live rte_intr_handle instances
         handle_fd |-> "none",     \* rte_intr_fd_set() of the live handle
         nonblock |-> FALSE,       \* O_NONBLOCK of ctx->async_fd
         flags0 |-> FALSE,         \* O_NONBLOCK before mana_intr_install()
         registered |-> FALSE,     \* mana_intr_handler in the dispatcher
         mrs |-> 0,                \* memory regions of the port
         primary_cnt |-> 0, secondary_cnt |-> 0, local_secondary_cnt |-> 0,
         cnt0 |-> <<0, 0, 0>>,     \* the counters when the probe began
         unreg |-> 0,              \* result of the deregistration
         uninstall_ret |-> 0,      \* return of mana_intr_uninstall()
         attempted |-> {}]         \* the calls mana_dev_close() made

PortCounters(w) ==
  <<w.primary_cnt, w.secondary_cnt, w.local_secondary_cnt>>

\* the body of mana_probe_port() before mana_intr_install(): every call
\* before the failing one has acquired its resource
Acquire(w, role, fail) ==
  LET n == StepIdx(role, fail)
      got(step) == StepIdx(role, step) < n
  IN
  IF role = "RTE_PROC_SECONDARY"
    THEN [w EXCEPT
           !.eth_dev = got("rte_eth_dev_attach_secondary"),
           !.process_private =
              IF got("mana_proc_priv_init") THEN @ + 1 ELSE @,
           \* close(fd) follows the mapping of the doorbell
           !.fd = IF got("mana_mp_req_verbs_cmd_fd")
                      /\ ~got("mana_map_doorbell_secondary")
                    THEN @ + 1 ELSE @,
           !.db_page =
              IF got("mana_map_doorbell_secondary") THEN @ + 1 ELSE @]
    ELSE [w EXCEPT
           !.ib_ctx = IF got("ibv_open_device") THEN "open" ELSE @,
           !.nonblock = FALSE,
           !.eth_dev = got("rte_eth_dev_allocate"),
           !.mac_addrs = got("mac_addrs"),
           !.ib_pd = got("ibv_alloc_pd"),
           !.ib_parent_pd = got("ibv_alloc_parent_domain")]

\* mana_probe_port() up to mana_intr_install() in a primary process, to
\* its return in a secondary process; fail names the call that fails
ProbePortBegin(role, fail) ==
  /\ prt.pc = "idle" /\ prt.state = "unprobed" /\ prt.nprobes < MaxProbes
  \* rte_eal_process_type() of the process does not change
  /\ prt.role \in {"none", role}
  /\ LET w0 == [prt EXCEPT !.role = role, !.nprobes = @ + 1,
                           !.cnt0 = PortCounters(prt), !.step = fail]
     IN
     IF fail = "rte_zmalloc_socket"
       THEN prt' = [w0 EXCEPT !.ret = -12]                  \* return -ENOMEM
       ELSE
         LET w1 == Acquire([w0 EXCEPT !.priv = @ + 1], role, fail) IN
         IF fail # "none"
           THEN prt' = [w1 EXCEPT !.pc = "failed", !.ret = StepErrno(fail)]
           ELSE IF role = "RTE_PROC_SECONDARY"
             THEN prt' = [w1 EXCEPT
                           !.secondary_cnt = @ + 1,
                           !.local_secondary_cnt = @ + 1,
                           !.state = "probed", !.ret = 0]
             ELSE prt' = [w1 EXCEPT !.pc = "install"]
  /\ UNCHANGED <<coordVars, devVars, intrVars, sec, qsu, mrc>>

\* restore_fd: fcntl(ctx->async_fd, F_SETFL, flags)
RestoreFd_skipped(w, flags) == w
RestoreFd(w, flags) == [w EXCEPT !.nonblock = flags]

\* free_intr: rte_intr_instance_free(priv->intr_handle);
\* priv->intr_handle = NULL
FreeIntr(w) == [w EXCEPT !.handles = @ - 1, !.intr_handle = "NULL",
                         !.handle_fd = "none"]

\* mana_intr_install(): fail names the call that fails, if any
mana_intr_install(w, fail) ==
  LET flags == w.nonblock                              \* fcntl(F_GETFL)
      w0 == [w EXCEPT !.flags0 = flags]
      w1 == [w0 EXCEPT !.handles = @ + 1, !.intr_handle = "valid",
                       !.handle_fd = "minus1"]
      w2 == [w1 EXCEPT !.nonblock = TRUE, !.handle_fd = "async_fd"]
  IN
  CASE fail = "rte_intr_instance_alloc" -> [w0 EXCEPT !.ret = -12]
    [] fail = "fcntl" -> [FreeIntr(w1) EXCEPT !.ret = -1]
    [] fail = "rte_intr_callback_register" ->
         [FreeIntr(RestoreFd([w2 EXCEPT !.handle_fd = "minus1"], flags))
            EXCEPT !.ret = -1]
    [] OTHER -> [w2 EXCEPT !.registered = TRUE, !.ret = 0]

InstallFails ==
  {"none", "rte_intr_instance_alloc", "fcntl", "rte_intr_callback_register"}

\* the call of mana_intr_install() in mana_probe_port() and, when it
\* succeeds, the rest of the probe
ProbeIntrInstall(fail) ==
  /\ prt.pc = "install"
  /\ LET w == mana_intr_install([prt EXCEPT !.step = fail], fail) IN
     prt' = IF w.ret # 0
              THEN [w EXCEPT !.pc = "failed"]
              ELSE [w EXCEPT !.primary_cnt = @ + 1, !.pc = "idle",
                             !.state = "probed"]
  /\ UNCHANGED <<coordVars, devVars, intrVars, sec, qsu, mrc>>

\* failed: the label of mana_probe_port(); rte_eth_dev_release_port()
\* gives back the port with the data it owns
ProbeFailed ==
  /\ prt.pc = "failed"
  /\ prt' = [prt EXCEPT !.ib_parent_pd = FALSE, !.ib_pd = FALSE,
                        !.eth_dev = FALSE, !.mac_addrs = FALSE,
                        !.priv = @ - 1,
                        !.ib_ctx = IF @ = "open" THEN "closed" ELSE @,
                        !.pc = "idle"]
  /\ UNCHANGED <<coordVars, devVars, intrVars, sec, qsu, mrc>>

\* the data path registers a memory region of a mempool with the port
MrRegister ==
  /\ prt.pc = "idle" /\ prt.state = "probed"
  /\ prt.role = "RTE_PROC_PRIMARY"
  /\ prt.mrs < MaxMrs
  /\ prt' = [prt EXCEPT !.mrs = @ + 1]
  /\ UNCHANGED <<coordVars, devVars, intrVars, sec, qsu, mrc>>

\* results of rte_intr_callback_unregister(): the number of callbacks
\* removed, -EAGAIN while the handler runs, -ENOENT when the dispatcher has
\* no source for the descriptor
UnregisterResults == {-11, -2, 0, 1}

\* the test of mana_intr_uninstall() on the result of the deregistration
UnregisterFailed(r) == r <= 0

\* mana_intr_uninstall(): the state after, ret the return value
mana_intr_uninstall(w, unreg) ==
  IF UnregisterFailed(unreg)
    THEN [w EXCEPT !.ret = unreg, !.unreg = unreg]
    ELSE [w EXCEPT !.registered = FALSE, !.handles = @ - 1,
                   !.handle_fd = "none", !.intr_handle = "freed",
                   !.ret = 0, !.unreg = unreg]

\* mana_remove_all_mr(priv): every memory region of the port is released
mana_remove_all_mr(w) == [w EXCEPT !.mrs = 0]

\* mana_dev_close() of the port of a primary process; unreg is the result
\* of the deregistration, close_errno the errno of a failing
\* ibv_close_device() or 0
mana_dev_close(unreg, close_errno) ==
  /\ prt.pc = "idle" /\ prt.state = "probed"
  /\ prt.role = "RTE_PROC_PRIMARY"
  /\ LET w1 == mana_remove_all_mr([prt EXCEPT !.step = "mana_dev_close",
                                              !.state = "closed"])
         w2 == mana_intr_uninstall(w1, unreg)
     IN
     IF w2.ret # 0
       THEN prt' = [w2 EXCEPT !.uninstall_ret = w2.ret,
                              !.attempted =
                      {"mana_remove_all_mr", "mana_intr_uninstall"}]
       ELSE prt' = [w2 EXCEPT
                     !.uninstall_ret = w2.ret,
                     !.ib_ctx = IF close_errno = 0 THEN "closed" ELSE @,
                     !.ret = close_errno,
                     !.attempted =
                       {"mana_remove_all_mr", "mana_intr_uninstall",
                        "ibv_close_device"}]
  /\ UNCHANGED <<coordVars, devVars, intrVars, sec, qsu, mrc>>

PortNext ==
  \/ \E role \in ProcTypes :
       \E fail \in StepNames(role) \cup {"none", "rte_zmalloc_socket"} :
         ProbePortBegin(role, fail)
  \/ \E fail \in InstallFails : ProbeIntrInstall(fail)
  \/ ProbeFailed
  \/ MrRegister
  \/ \E unreg \in UnregisterResults, close_errno \in {0, 5} :
       mana_dev_close(unreg, close_errno)

(* ===================== memory-registration cache ======================= *)
\* The cache: an address-ordered index of ranges with a bounded capacity
\* and least-recently-used replacement.  mana.c creates and frees the
\* caches; their lookup and insert are modelled from the specification.
Ranges == 1..MaxRanges
RangeLen == 2
\* the ranges come from fixed-size pools: [base, base + RangeLen)
RangeBase(r) == (r - 1) * RangeLen
Addrs == 0..(MaxRanges * RangeLen - 1)

\* mana_mr_btree_init(): an empty cache of capacity CacheN
CacheInit ==
  mrc = [entries |-> <<>>,       \* stored ranges, least recently used first
         registered |-> {},      \* ranges registered with the hardware
         uses |-> <<>>,          \* the ranges inserted or hit, in order
         last |-> [op |-> "none", range |-> 0, hit |-> FALSE,
                   before |-> <<>>, uses0 |-> <<>>]]

Stored(entries) == {entries[i] : i \in DOMAIN entries}

\* entries without the range r, order kept
Without(entries, r) == SelectSeq(entries, LAMBDA x : x # r)

\* the stored range containing [addr, addr + len), 0 when there is none
CacheFind(entries, addr, len) ==
  LET hits == {r \in Stored(entries) :
                 RangeBase(r) <= addr
                 /\ addr + len <= RangeBase(r) + RangeLen}
  IN IF hits = {} THEN 0 ELSE CHOOSE r \in hits : TRUE

\* the entry replaced when the capacity is exceeded
Victim_most_recent(entries) == entries[Len(entries)]
Victim(entries) == Head(entries)

\* lookup(address, length): a hit makes the entry the most recently used
CacheLookup(addr, len) ==
  /\ Len(mrc.uses) < MaxUses
  /\ LET r == CacheFind(mrc.entries, addr, len) IN
     mrc' = [mrc EXCEPT
              !.entries = IF r = 0 THEN @ ELSE Append(Without(@, r), r),
              !.uses = IF r = 0 THEN @ ELSE Append(@, r),
              !.last = [op |-> "lookup", range |-> r, hit |-> (r # 0),
                        before |-> mrc.entries, uses0 |-> mrc.uses]]
  /\ UNCHANGED <<coordVars, devVars, intrVars, sec, qsu, prt>>

\* insert(range, handle) after a miss: the range has been registered with
\* the hardware; beyond the capacity the victim is dropped and its
\* registration released
CacheInsert(r) ==
  /\ Len(mrc.uses) < MaxUses
  /\ r \notin Stored(mrc.entries)
  /\ LET full == Len(mrc.entries) >= CacheN
         v == IF full THEN Victim(mrc.entries) ELSE 0
     IN
     mrc' = [mrc EXCEPT
              !.entries = Append(IF full THEN Without(@, v) ELSE @, r),
              !.registered = (@ \ {v}) \cup {r},
              !.uses = Append(@, r),
              !.last = [op |-> "insert", range |-> r, hit |-> FALSE,
                        before |-> mrc.entries, uses0 |-> mrc.uses]]
  /\ UNCHANGED <<coordVars, devVars, intrVars, sec, qsu, prt>>

\* clear(): every entry dropped, every registration released
CacheClear ==
  /\ mrc.entries # <<>>
  /\ mrc' = [mrc EXCEPT
              !.entries = <<>>, !.registered = {},
              !.last = [op |-> "clear", range |-> 0, hit |-> FALSE,
                        before |-> mrc.entries, uses0 |-> mrc.uses]]
  /\ UNCHANGED <<coordVars, devVars, intrVars, sec, qsu, prt>>

CacheNext ==
  \/ \E addr \in Addrs, len \in 1..RangeLen : CacheLookup(addr, len)
  \/ \E r \in Ranges : CacheInsert(r)
  \/ CacheClear

(* ===================== specifications ================================== *)
Init == CoordInit /\ DevInit /\ IntrInit /\ SecInit /\ QueueInit
        /\ PortInit /\ CacheInit

Next == CoordNext

\* probe and remove of the PCI device by the processes
Spec == Init /\ [][Next]_vars

\* configure, start and stop of one port, with a worker thread
SpecDev == Init /\ [][DevNext]_vars

\* the asynchronous events of one port
SpecIntr == Init /\ [][IntrNext]_vars

\* the same, with the interrupt thread running the handler to its end
SpecIntrFair == SpecIntr /\ WF_vars(HandlerGet) /\ WF_vars(HandlerEvent)

\* probes and removes of several PCI devices in one secondary process
SpecSec == Init /\ [][SecNext]_vars

\* setup and release of the tx and rx queues of one port
SpecQueue == Init /\ [][QueueNext]_vars

\* probe of one port with its event watcher, close of the port
SpecPort == Init /\ [][PortNext]_vars

\* inserts, lookups and clear on one memory-registration cache
SpecCache == Init /\ [][CacheNext]_vars

(* ===================== properties ====================================== *)
\* the three coordination counters
CountersNonNegative ==
  /\ shm.primary_cnt >= 0
  /\ shm.secondary_cnt >= 0
  /\ \A p \in Procs : mana_local_data[p].secondary_cnt >= 0

\* process p is stopped by rte_panic() in this step
Panics(p) == pc[p] # "panic" /\ pc'[p] = "panic"

\* C1: whatever probes and removes the primary and the secondaries issue,
\* primary_cnt, secondary_cnt and the local secondary_cnt never fall below
\* zero; a remove that meets a counter at 0 ends in rte_panic() and the
\* counter it tested is still 0 afterwards.
C1_CountersNeverNegative ==
  [][ /\ CountersNonNegative'
      /\ \A p \in Procs :
           Panics(p) =>
             /\ shm' = shm /\ mana_local_data' = mana_local_data
             /\ \/ pc[p] = "rm_dec" /\ p = PRIMARY /\ shm'.primary_cnt = 0
                \/ pc[p] = "rm_dec" /\ p # PRIMARY /\ shm'.secondary_cnt = 0
                \/ pc[p] = "rm_local"
                     /\ mana_local_data'[p].secondary_cnt = 0 ]_vars

\* C1 witness: the primary removed a device none of whose ports it had
\* attached, and died in RTE_VERIFY with primary_cnt still 0
C1_Witness ==
  /\ pc[PRIMARY] = "panic" /\ mz_state = "reserved"
  /\ shm.primary_cnt = 0 /\ attached[PRIMARY] = {}

\* C2 (statement refuted by the code): over any probes and removes the
\* global one-time initialization, of which mana_mp_init_primary() is the
\* last part, has run at most once.
C2_GlobalInitOnce == hist.mp_init_primary <= 1

\* C3: when mana_dev_start() has returned an error, every tx and rx queue
\* is inactive and both burst entry points are the removed stubs.
C3_StartAllOrNothing ==
  (ctl.pc = "idle" /\ ctl.op = "start" /\ ctl.ret # 0) =>
     /\ dev.txq = AllInactive /\ dev.rxq = AllInactive
     /\ dev.tx_pkt_burst = "removed" /\ dev.rx_pkt_burst = "removed"
     /\ seen.tx_pkt_burst = "removed" /\ seen.rx_pkt_burst = "removed"

\* C3 witness: a start that had activated a queue has returned an error
C3_Witness ==
  /\ ctl.pc = "idle" /\ ctl.op = "start" /\ ctl.ret # 0 /\ ctl.activated
  /\ dev.txq = AllInactive /\ dev.rxq = AllInactive

\* C4 (statement refuted by the code): no live burst function called by a
\* worker thread ever runs against a queue that mana_dev_stop() is
\* deactivating or has deactivated.
C4_NoBurstOnStoppedQueue == ~worker.hit_inactive

\* every configured queue is active, in the device and in the view of the
\* other threads
AllQueuesActive ==
  \A q \in 1..dev.num_queues :
    dev.txq[q] /\ dev.rxq[q] /\ seen.txq[q] /\ seen.rxq[q]

\* C5: a live burst pointer, stored in the device or visible to another
\* thread, implies that every configured tx and rx queue is active and is
\* seen active by that thread.
C5_LiveOnlyAfterQueuesActive ==
  ("live" \in {dev.tx_pkt_burst, dev.rx_pkt_burst,
               seen.tx_pkt_burst, seen.rx_pkt_burst}) => AllQueuesActive

\* C5 witness: both live pointers are visible to the worker of a started
\* device with two queues per direction
C5_Witness ==
  /\ seen.tx_pkt_burst = "live" /\ seen.rx_pkt_burst = "live"
  /\ dev.dev_started /\ dev.num_queues = 2 /\ AllQueuesActive

\* C6 (statement refuted by the code): however many fatal events the
\* handler drains, the removal callback has been invoked at most once.
C6_RemovalReportedOnce == intr.rmv_callbacks <= 1

\* C7 (statement refuted by the code): when a remove of the primary
\* returns, all its ports being detached, primary_cnt is 0 and the shared
\* segment is no longer reserved.
C7_FreedAtLastPrimaryDetach ==
  [][ (pc[PRIMARY] = "rm_free" /\ pc'[PRIMARY] = "idle") =>
        (shm'.primary_cnt = 0 /\ mz_state' # "reserved") ]_vars

\* the steps that write a coordination counter, read primary_cnt for the
\* free of the segment, or run the one-time initialization
GuardedPcs == {"isd_memset", "io_switch", "pp_inc", "rm_dec", "rm_local",
               "rm_free"}

\* C8 (statement refuted by the code): every step that changes a
\* coordination counter, reads one to decide a teardown, or performs the
\* lazy global initialization is taken by a process holding the lock of the
\* shared segment.
C8_CountersUnderSharedLock ==
  [][ \A p \in Procs :
        (pc[p] \in GuardedPcs /\ pc'[p] \notin {pc[p], "segv"})
           => shm.lock = p ]_vars

Inited(p) == IF p = PRIMARY THEN hist.mp_init_primary > 0
                            ELSE hist.mp_init_secondary[p] > 0

\* C10 (statement refuted by the code): a mana_init_once() call in a
\* process where an earlier call succeeded returns success and runs no
\* setup.
C10_InitIdempotent ==
  [][ \A p \in Procs :
        (pc[p] = "io_switch" /\ pc'[p] # "io_switch" /\ Inited(p))
           => (pc'[p] = "pm_loop" /\ hist' = hist
               /\ mp_registered' = mp_registered) ]_vars

\* C11 (statement refuted by the code): mana_mp_uninit_secondary() never
\* runs in a secondary process that still has an attached port.
C11_TeardownOnlyWithoutPorts ==
  [][ (sec.mp_registered /\ ~sec'.mp_registered) => sec'.attached = {} ]_vars

\* C12 (statement refuted by the code): a mana_dev_configure() call that
\* returns an error leaves num_queues, the offload flags and the buffer
\* allocators as they were before the call.
C12_ConfigureFailureChangesNothing ==
  [][ (ctl.pc = "idle" /\ ctl'.pc = "idle" /\ ctl'.op = "configure"
         /\ ctl'.ret # 0) => dev' = dev ]_vars

\* C13: after a queue setup that returned an error, the live allocations
\* and every queue slot are what they were before the call and the error is
\* -ENOMEM; after a setup that returned 0 the slot holds a queue with head =
\* tail = 0 and num_desc = nb_desc, and exactly one queue record, one ring
\* and one MR btree were allocated.
C13_SetupAtomic ==
  LET l == qsu.last IN
  l.op = "setup" =>
    IF l.ret # 0
      THEN qsu.heap = l.heap0 /\ qsu.slots = l.slots0 /\ l.ret = -12
      ELSE /\ qsu.heap = [qrec |-> l.heap0.qrec + 1, ring |-> l.heap0.ring + 1,
                          btree |-> l.heap0.btree + 1]
           /\ qsu.slots = [l.slots0 EXCEPT ![<<l.dir, l.q>>] =
                <<[desc_ring_head |-> 0, desc_ring_tail |-> 0,
                   num_desc |-> l.nb_desc, mr_entries |-> 0]>>]
           /\ l.nb_desc > 0

\* C13 witness: a setup with a non-zero depth failed while another queue
\* of the port is set up
C13_Witness ==
  /\ qsu.last.op = "setup" /\ qsu.last.ret # 0 /\ qsu.last.nb_desc > 0
  /\ qsu.heap.qrec = 1 /\ qsu.slots[<<qsu.last.dir, qsu.last.q>>] = NoQueue

\* C14: the release of a queue right after its setup leaves the live
\* allocations and the slots as they were before the setup, with no MR
\* btree left, and neither call changes the state of the hardware queues,
\* the burst pointers or the MR btree of the device.
C14_SetupReleaseLeavesNothing ==
  [][ /\ (qsu' # qsu) => UNCHANGED devVars
      /\ (qsu' # qsu /\ qsu'.last.op = "release" /\ qsu'.last.after_setup)
           => /\ qsu'.heap = qsu.last.heap0
              /\ qsu'.slots = qsu.last.slots0
              /\ qsu.slots[<<qsu.last.dir, qsu.last.q>>][1].mr_entries = 0
    ]_vars

\* C14 witness: a queue was released right after its setup while another
\* queue of the port stays set up
C14_Witness ==
  /\ qsu.last.op = "release" /\ qsu.last.after_setup
  /\ qsu.heap = [qrec |-> 1, ring |-> 1, btree |-> 1]

\* the control thread is inside mana_dev_stop(), past the first two stores
InStop == ctl.pc \in {"stop_mp", "stop_wmb", "stop_tx", "stop_rx"}

\* C15: whenever the device is not started - after probe, after a failed
\* start, after a stop - and from the first statement of every stop on,
\* both burst pointers are the removed stubs; the live functions are stored
\* only by a start that is succeeding; and a call of a removed stub returns
\* 0 and touches no queue.
C15_StubsWhenNotStarted ==
  /\ (~dev.dev_started /\ ctl.pc # "start_mp")
        => (dev.tx_pkt_burst = "removed" /\ dev.rx_pkt_burst = "removed")
  /\ (InStop \/ (ctl.pc = "idle" /\ ctl.op = "stop"))
        => (dev.tx_pkt_burst = "removed" /\ dev.rx_pkt_burst = "removed")
  /\ (ctl.pc = "idle" /\ ~dev.dev_started)
        => (seen.tx_pkt_burst = "removed" /\ seen.rx_pkt_burst = "removed")
  /\ (worker.pc = "idle" /\ worker.fn = "removed")
        => (worker.nb = 0 /\ ~worker.touched)

\* C15 witness: after a successful stop a worker has called the rx stub
C15_Witness ==
  /\ ctl.pc = "idle" /\ ctl.op = "stop" /\ ctl.ret = 0 /\ ~dev.dev_started
  /\ worker.pc = "idle" /\ worker.fn = "removed" /\ worker.dir = "rx"
  /\ dev.rx_pkt_burst = "removed" /\ worker.nb = 0

\* events the handler has fetched with ibv_get_async_event()
Fetched == intr.posted - Len(intr.async_events)

\* C16: the handler fetches the events one at a time and acknowledges each
\* fetched event exactly once before it fetches the next; it returns only
\* when the source reports no pending event; and once called it returns.
C16_DrainAcksAndTerminates ==
  /\ [](IF intr.pc = "event" THEN Fetched = intr.acked + 1
                             ELSE Fetched = intr.acked)
  /\ [][ (intr.pc = "get" /\ intr'.pc = "idle")
            => intr.async_events = <<>> ]_vars
  /\ (intr.pc # "idle" ~> intr.pc = "idle")

\* C16 witness: the handler has returned after a drain of a fatal and a
\* benign event, nothing pending, both acknowledged
C16_Witness ==
  /\ intr.pc = "idle" /\ intr.async_events = <<>>
  /\ intr.acked >= 2 /\ intr.fatal_seen >= 1 /\ intr.fatal_seen < intr.acked

(* ---------------- event watcher, close, probe unwinding ---------------- *)
\* C17: mana_intr_uninstall() returns success only when the deregistration
\* removed the callback and the handle was released, and an error for
\* every other result of the deregistration, zero callbacks removed
\* included.
C17_UninstallErrorUnlessRemoved ==
  prt.step = "mana_dev_close" =>
    (prt.uninstall_ret = 0 <=>
       (prt.unreg > 0 /\ ~prt.registered /\ prt.handles = 0))

\* C18: a failing mana_intr_install() returns non-zero with the handle
\* freed, priv->intr_handle NULL, no callback registered and the flags of
\* the descriptor as they were; a successful one leaves the descriptor
\* non-blocking and the callback registered on it.
C18_InstallRollsBack ==
  /\ (prt.pc = "failed" /\ prt.step \in InstallFails) =>
       /\ prt.ret # 0
       /\ prt.intr_handle = "NULL" /\ prt.handles = 0
       /\ ~prt.registered
       /\ prt.nonblock = prt.flags0
  /\ (prt.pc = "idle" /\ prt.state = "probed"
        /\ prt.role = "RTE_PROC_PRIMARY") =>
       /\ prt.ret = 0
       /\ prt.intr_handle = "valid" /\ prt.handles = 1
       /\ prt.handle_fd = "async_fd"
       /\ prt.nonblock /\ prt.registered

\* the registration of the callback failed after the descriptor had been
\* made non-blocking
C18_Witness ==
  prt.pc = "failed" /\ prt.step = "rte_intr_callback_register"

\* C19: mana_dev_close() attempts every step (memory regions, watcher,
\* device) whatever fails, and returns the first error.
C19_CloseBestEffort ==
  prt.step = "mana_dev_close" =>
    /\ prt.attempted = {"mana_remove_all_mr", "mana_intr_uninstall",
                        "ibv_close_device"}
    /\ (prt.uninstall_ret # 0 => prt.ret = prt.uninstall_ret)

\* nothing acquired by a probe is still held
NoResources(w) ==
  /\ w.priv = 0 /\ ~w.eth_dev /\ ~w.mac_addrs
  /\ ~w.ib_pd /\ ~w.ib_parent_pd /\ w.ib_ctx # "open"
  /\ w.process_private = 0 /\ w.fd = 0 /\ w.db_page = 0
  /\ w.handles = 0 /\ ~w.registered

\* C20: a failed mana_probe_port() has released every resource it had
\* acquired and left the attachment counters as they were.
C20_ProbeFailureReleasesAll ==
  (prt.pc = "idle" /\ prt.state = "unprobed" /\ prt.ret # 0) =>
    NoResources(prt) /\ PortCounters(prt) = prt.cnt0

(* ---------------------- memory-registration cache ---------------------- *)
\* position of the last use of range r in the log of uses, 0 when unused
LastUse(uses, r) ==
  LET at == {i \in DOMAIN uses : uses[i] = r}
  IN IF at = {} THEN 0 ELSE CHOOSE i \in at : \A j \in at : j <= i

\* the stored range whose last use is the oldest
LeastRecentlyUsed(entries, uses) ==
  CHOOSE r \in Stored(entries) :
    \A o \in Stored(entries) : LastUse(uses, r) <= LastUse(uses, o)

\* C21: an insert into a full cache of capacity N drops exactly one entry,
\* the least recently used one, and releases its registration; afterwards
\* the dropped range misses, the other N ranges hit, and the cache never
\* holds more than N entries.
C21_InsertEvictsLeastRecentlyUsed ==
  /\ Len(mrc.entries) <= CacheN
  /\ (mrc.last.op = "insert" /\ Len(mrc.last.before) = CacheN) =>
       LET old == LeastRecentlyUsed(mrc.last.before, mrc.last.uses0)
           kept == (Stored(mrc.last.before) \ {old}) \cup {mrc.last.range}
       IN
       /\ Stored(mrc.entries) = kept
       /\ Cardinality(kept) = CacheN
       /\ old \notin mrc.registered
       /\ kept \subseteq mrc.registered
       /\ CacheFind(mrc.entries, RangeBase(old), RangeLen) = 0
       /\ \A r \in kept : CacheFind(mrc.entries, RangeBase(r), RangeLen) = r

\* a full cache takes one more range, and its least recently used entry
\* is not the range that was used first
C21_Witness ==
  /\ mrc.last.op = "insert" /\ Len(mrc.last.before) = CacheN
  /\ Head(mrc.last.before) # mrc.last.uses0[1]

(* ---------------------- coordination, continued ------------------------ *)
\* C22 (statement refuted by the code): no process is about to read, write
\* or lock the shared segment through mana_shared_data once the segment
\* has been freed.
C22_NoAccessAfterFree ==
  \A p \in Procs : pc[p] \in DerefPcs => mz_state = "reserved"

\* C23 (statement refuted by the code): a process that is not inside a
\* probe or a remove, because the call returned or the process was aborted
\* by rte_panic(), holds neither the process-local lock nor the lock of
\* the shared segment, so no other process waits for it for ever.
C23_LocksReleasedOnEveryPath ==
  \A p \in Procs :
    pc[p] \in {"idle", "panic"} =>
      (shm.lock # p /\ ~mana_shared_data_lock[p])

(* --------------------- device start / stop, continued ------------------ *)
\* every configured queue of the primary is active in the hardware
HwQueuesActive(d) == \A q \in 1..d.num_queues : d.txq[q] /\ d.rxq[q]

\* C24: the data path of the secondary processes is enabled only by a
\* start that has activated every queue and stored the live burst
\* functions, is not enabled after a start that failed, and is disabled
\* before a stop deactivates a queue: it is never enabled while a queue of
\* the primary is inactive.
C24_SecondaryDatapathFollowsQueues ==
  /\ [](dev.sec_rxtx => HwQueuesActive(dev))
  /\ []((ctl.pc = "idle" /\ ctl.op = "start" /\ ctl.ret # 0)
          => ~dev.sec_rxtx)
  /\ [][ (~dev.sec_rxtx /\ dev'.sec_rxtx) =>
           /\ HwQueuesActive(dev')
           /\ dev'.tx_pkt_burst = "live" /\ dev'.rx_pkt_burst = "live"
           /\ ctl'.pc = "idle" /\ ctl'.op = "start" /\ ctl'.ret = 0 ]_vars
  /\ [][ (HwQueuesActive(dev) /\ ~HwQueuesActive(dev') /\ InStop)
           => ~dev.sec_rxtx ]_vars

\* a stop has switched the secondaries off and is about to deactivate the
\* two queues of each direction
C24_Witness ==
  /\ ctl.pc = "stop_tx" /\ ~dev.sec_rxtx
  /\ dev.num_queues = 2 /\ HwQueuesActive(dev)

\* C25 (statement refuted by the code): mana_dev_start() initializes the
\* device-wide memory-registration cache only when it is not initialized,
\* the cache is freed only when it is initialized, and a start that
\* returned an error has freed the cache it initialized.
C25_CacheInitOnlyWhenReleased ==
  /\ [][ (ctl.pc = "idle" /\ ctl'.pc = "start_tx") => ~dev.mr_btree ]_vars
  /\ [][ (ctl.pc = "failed_tx" /\ ctl'.pc = "idle")
           => (dev.mr_btree /\ ~dev'.mr_btree) ]_vars

(* ---------------------- counters of the secondaries -------------------- *)
\* sum of the process-local secondary_cnt of the secondary processes
LocalSecondarySum ==
  mana_local_data["sec1"].secondary_cnt + mana_local_data["sec2"].secondary_cnt

\* C26 (statement refuted by the code): while the shared segment exists,
\* has been cleared by the primary, and no secondary process is inside a
\* probe or a remove, the shared secondary_cnt is the sum of the local
\* counts, and each local count is the number of ports the process has
\* attached.
C26_SecondaryCountsMatchPorts ==
  (/\ mz_state = "reserved" /\ pc[PRIMARY] # "isd_memset"
   /\ \A p \in Secondaries : pc[p] = "idle") =>
     /\ shm.secondary_cnt = LocalSecondarySum
     /\ \A p \in Secondaries :
          mana_local_data[p].secondary_cnt = Cardinality(attached[p])

====
